---- MODULE Spec2Model ----
(***************************************************************************)
(* Acquisition routines of the PL microscope (yaqcThor).                   *)
(*                                                                         *)
(* Two generations of every routine live in the repository: the package    *)
(* (src/yaqcThor/experiments.py with helpers.waitfor) and the stand-alone  *)
(* scripts (src/monitor_power.py, src/tuning_curve.py, src/PLE.py with its *)
(* own __waitfor).  cfg.variant selects the generation, cfg.routine the    *)
(* routine.                                                                *)
(*                                                                         *)
(* Time is simulated: it advances only in sleep() calls.  The unit is half *)
(* a millisecond, so that deadlines between two polls can be expressed.    *)
(* A device is a countdown of the time it still reports busy (Hung: it     *)
(* reports busy forever); every sleep ages every device.                   *)
(*                                                                         *)
(* cfg.entry is the place a run starts: "call" is the first line of the    *)
(* routine; "plan" is the line after the setpoint array wls was built      *)
(* (the range check); "acquire" is the first device operation after the    *)
(* range check.  The later entries expose the acquisition code of the      *)
(* routines whose first lines raise.                                       *)
(***************************************************************************)
EXTENDS Integers, Sequences, FiniteSets, TLC

----------------------------------------------------------------------------
(* Program constants, times in half milliseconds. *)

\* helpers.py:145 / PLE.py:33 / monitor_power.py:26   sleep(0.001)
PollInterval == 2
\* experiments.py:52 / monitor_power.py:28   time limit cycle_time*10
MonitorLimitFactor == 10
\* experiments.py:265,289   time limit cycle_time*2
TuningLimitFactor == 2
\* experiments.py:128,256 / PLE.py:72   valid wavelengths 420-700 nm
OpoMin == 420
OpoMax == 700
\* tuning_curve.py:10   the script checks against 400 nm
ScriptOpoMin == 400
\* tuning_curve.py:24,52   sleep(0.005)
ScriptPmPoll == 10
\* tuning_curve.py:26   timer > 0.1*samples  (seconds)
ScriptDarkLimitPerSample == 200
\* tuning_curve.py:54   time_busy > 60  (seconds)
ScriptSweepLimit == 120000
\* tuning_curve.py:45,46   sleep(0.1) while the OPO is busy, then sleep(1)
ScriptOpoPoll == 200
ScriptSettle == 2000
\* experiments.py:138 / PLE.py:81   sleep(15)
StabilizeSleep == 30000

(* Bounds of the model. *)
MaxLimit == 5        \* largest deadline handed to a stand-alone waitfor call
MaxBusy == 7         \* longest busy time of the device of a stand-alone call
CycleTime == 10      \* power meter cycle time (from its configuration): 5 ms
Samples == 2         \* pm_samples / samples
MaxSlots == 3        \* pre-allocated slots of monitor_power
MaxSpan == 50        \* largest |start - stop| of a scan plan
SweepSamples == 2    \* range(1000) of tuning_curve.py:49, scaled down
MaxSaves == 2        \* saves of the timeout branch of tuning_curve.py followed
TinyExposure == 2    \* a camera exposure shorter than a cycle time: 1 ms
ShortExposure == 24  \* a camera exposure of a few cycle times
MaxExposure == 100   \* longest camera exposure: 50 ms
MaxPleSetpoints == 3 \* longest plan of a spectrum scan that is followed
MaxGate == 10        \* passes of one sampling loop that are followed

Hung == -1
Unset == -1

Min(a, b) == IF a < b THEN a ELSE b
Max(a, b) == IF a > b THEN a ELSE b

----------------------------------------------------------------------------
(* Devices *)

\* a device that reports busy for b more time units, d units later
ElapseCancelled(b, d) == 0
Elapse(b, d) == IF b = Hung THEN Hung ELSE Max(0, b - d)

\* daemon.busy()
Busy(b) == b # 0

\* time.sleep(d): every device ages
SleepAll(dv, d) == [x \in DOMAIN dv |-> Elapse(dv[x], d)]

----------------------------------------------------------------------------
(* Poll-Until-Ready *)

\* helpers.py:147 `time_limit_s>0 and timer>time_limit_s`
\* PLE.py:35      `timer>time_limit`
NeverExpired(v, timer, limit) == FALSE
ExpiredOnePollLate(v, timer, limit) == timer > limit + PollInterval
ExpiredStrictOrEqual(v, timer, limit) ==
    IF v = "package" THEN limit > 0 /\ timer >= limit ELSE timer >= limit
Expired(v, timer, limit) ==
    IF v = "package" THEN limit > 0 /\ timer > limit ELSE timer > limit

\* the loop of waitfor / __waitfor, from a device that is busy for b, after
\* n sleeps:
\*     while daemon.busy() and not timed_out:
\*         sleep(0.001); timer += 0.001; if <expired>: timed_out = True
\* The passes are counted instead of unrolled: the device is ready after
\* nReady sleeps, the deadline test is true for the first time in pass
\* nExpire.  blocked: the loop cannot end (the device never gets ready and
\* the timer never expires).
WaitLoop(v, b, timer, limit, n) ==
    LET nReady  == IF b = Hung THEN 0 ELSE (b + PollInterval - 1) \div PollInterval
        passes  == 1..(((Max(limit, timer) - timer) \div PollInterval) + 2)
        expired == {k \in passes : Expired(v, timer + k * PollInterval, limit)}
        nExpire == CHOOSE k \in expired : \A j \in expired : k <= j
        after(k) == Elapse(b, k * PollInterval)
    IN  IF ~Busy(b)
        THEN [timed_out |-> FALSE, timer |-> timer, busy |-> b, sleeps |-> n,
              lastBusy |-> FALSE, blocked |-> FALSE]
        ELSE IF b # Hung /\ (expired = {} \/ nReady < nExpire)
        THEN [timed_out |-> FALSE, timer |-> timer + nReady * PollInterval,
              busy |-> 0, sleeps |-> n + nReady,
              lastBusy |-> FALSE, blocked |-> FALSE]
        ELSE IF expired = {}
        THEN [timed_out |-> FALSE, timer |-> timer + PollInterval, busy |-> b,
              sleeps |-> n + 1, lastBusy |-> TRUE, blocked |-> TRUE]
        ELSE \* timed_out = True; the loop condition polls once more
             [timed_out |-> TRUE, timer |-> timer + nExpire * PollInterval,
              busy |-> after(nExpire), sleeps |-> n + nExpire,
              lastBusy |-> Busy(after(nExpire)), blocked |-> FALSE]

\* waitfor(daemon, time_limit_s) / __waitfor(daemon, time_limit)
waitfor(v, b, limit) == WaitLoop(v, b, 0, limit, 0)

\* `if time_limit_s>0: return timed_out`; otherwise the call returns None
ReturnsFlag(limit) == limit > 0

\* an in-line poll loop of the scripts:
\*     while pm.busy(): sleep(q); timer += q; if timer > limit: ...; break
\* in closed form: the device is ready after nReady sleeps, the timer
\* exceeds the limit at the nExpire-th sleep.
InlinePoll(b, timer, limit, q) ==
    LET nReady  == IF b = Hung THEN 0 ELSE (b + q - 1) \div q
        nExpire == IF timer >= limit THEN 1 ELSE ((limit - timer) \div q) + 1
    IN  IF b # Hung /\ nReady < nExpire
        THEN [timed_out |-> FALSE, timer |-> timer + nReady * q,
              busy |-> 0, slept |-> nReady * q]
        ELSE [timed_out |-> TRUE, timer |-> timer + nExpire * q,
              busy |-> Elapse(b, nExpire * q), slept |-> nExpire * q]

----------------------------------------------------------------------------
(* Scan plan *)

\* np.arange(lo, hi, st)
RECURSIVE Arange(_, _, _)
Arange(lo, hi, st) == IF lo >= hi THEN << >> ELSE <<lo>> \o Arange(lo + st, hi, st)

\* the arguments unpacked into np.arange:
\*   tuning_curve.py:8   sorted([start, stop]) + [step]
\*   experiments.py:127,255 / PLE.py:57   *[start,stop].sort(): list.sort()
\*   sorts in place and returns None, and unpacking None raises TypeError
PlanArgs(v, rt, a, b) ==
    IF v = "script" /\ rt = "tuning_curve"
    THEN [ok |-> TRUE, lo |-> Min(a, b), hi |-> Max(a, b)]
    ELSE [ok |-> FALSE, lo |-> 0, hi |-> 0]

\* the setpoint array: np.arange(*args)
\*   experiments.py:127,255 / PLE.py:57 / tuning_curve.py:8-9
Plan(v, rt, a, b, st) ==
    LET args == PlanArgs(v, rt, a, b)
    IN  IF args.ok THEN [ok |-> TRUE, wls |-> Arange(args.lo, args.hi, st)]
        ELSE [ok |-> FALSE, wls |-> << >>]

SeqMin(s) == CHOOSE x \in {s[k] : k \in DOMAIN s} : \A y \in {s[k] : k \in DOMAIN s} : x <= y
SeqMax(s) == CHOOSE x \in {s[k] : k \in DOMAIN s} : \A y \in {s[k] : k \in DOMAIN s} : x >= y

\* the range check, TRUE when the plan is refused
\*   experiments.py:128,256   np.min(wls)<420 or np.max(wls)<700
\*   tuning_curve.py:10       np.min(w)<400 or np.max(w)>700
RangeRefused(v, w) ==
    IF v = "package"
    THEN SeqMin(w) < OpoMin \/ SeqMax(w) < OpoMax
    ELSE SeqMin(w) < ScriptOpoMin \/ SeqMax(w) > OpoMax

----------------------------------------------------------------------------
(* State *)

VARIABLES
    cfg,    \* the call: routine, generation, entry and arguments
    pc,     \* position of the control flow
    dev,    \* busy countdown of the OPO, the power meter and the camera
    loc,    \* local variables of the routine
    out,    \* what the caller and the persistence layer see
    hist    \* record of the device operations performed (observation only)

vars == <<cfg, pc, dev, loc, out, hist>>

Routines == {"waitfor", "monitor_power", "tuning_curve", "PLE"}
Variants == {"package", "script"}

Cfg0 == [routine |-> "waitfor", variant |-> "package", entry |-> "call",
         start |-> 0, stop |-> 0, step |-> 0, limit |-> 0, slots |-> 0,
         hasPm |-> TRUE, exposure |-> 0, conifg |-> TRUE, busy |-> 0]

Dev0 == [opo |-> 0, pm |-> 0, cam |-> 0]

Loc0 == [wls |-> << >>, i |-> 0, j |-> 0, pm_timeout |-> FALSE,
         pm_timeout_bound |-> FALSE, points_measured |-> Unset,
         completed |-> FALSE, timer |-> 0, time_busy |-> 0,
         time |-> << >>, power_out |-> << >>, std_out |-> << >>,
         p |-> << >>, k |-> "unset", t_max |-> 0, P |-> << >>, t |-> << >>,
         sig |-> << >>, frame_dark |-> "unset", P_dark |-> "unset",
         wl_idx |-> 0, P_shape |-> << >>, t_shape |-> << >>]

Out0 == [saved |-> << >>, raised |-> "", returned |-> ""]

Hist0 == [wait |-> [timed_out |-> FALSE, timer |-> 0, busy |-> 0, sleeps |-> 0,
                    lastBusy |-> FALSE, blocked |-> FALSE],
          pmTrig |-> 0, pmOk |-> 0, pmStale |-> 0, timeouts |-> 0,
          firstTO |-> Unset, trigAfterTO |-> FALSE,
          moves |-> << >>, camTrig |-> << >>, camFetch |-> << >>,
          pmTrigAt |-> << >>, darkTO |-> FALSE, stage |-> "start",
          toAt |-> {}, retrigger |-> FALSE,
          sample |-> [timed_out |-> FALSE, slept |-> 0, limit |-> 0],
          gate |-> [slept |-> 0, hung |-> FALSE]]

\* deadlines of the routines
MonitorLimit == CycleTime * MonitorLimitFactor
TuningLimit == CycleTime * TuningLimitFactor

\* how long a triggered power meter stays busy: one cycle, exactly the
\* deadline it is given, one poll longer, or forever
PmTimes(limit, q) == {CycleTime, limit, limit + q, Hung}

Zeros(n, z) == [x \in 1..n |-> z]

Raise(o, e) == [o EXCEPT !.raised = e]
Return(o, r) == [o EXCEPT !.returned = r]
Save(o, d) == [o EXCEPT !.saved = Append(@, d)]

Ended == pc \in {"returned", "raised", "blocked"}

----------------------------------------------------------------------------
(* A stand-alone call of waitfor / __waitfor *)

InitWaitfor ==
    \* cfg.busy: how long the device reports busy from the call on
    /\ \E v \in Variants, l \in {-1} \cup (1..MaxLimit), b \in (0..MaxBusy) \cup {Hung} :
          cfg = [Cfg0 EXCEPT !.routine = "waitfor", !.variant = v, !.limit = l,
                             !.busy = b]
    /\ dev = [Dev0 EXCEPT !.pm = cfg.busy]
    /\ pc = "wf_call"
    /\ loc = Loc0 /\ out = Out0 /\ hist = Hist0

WaitforCall ==
    /\ pc = "wf_call"
    /\ LET r == waitfor(cfg.variant, dev.pm, cfg.limit)
       IN  /\ dev' = SleepAll(dev, r.timer)
           /\ hist' = [hist EXCEPT !.wait = r]
           /\ IF r.blocked
              THEN pc' = "blocked" /\ out' = out
              ELSE /\ pc' = "returned"
                   /\ out' = Return(out, IF ~ReturnsFlag(cfg.limit) THEN "None"
                                         ELSE IF r.timed_out THEN "True"
                                         ELSE "False")
    /\ UNCHANGED <<cfg, loc>>

----------------------------------------------------------------------------
(* Continuous sampler: monitor_power *)

\* cfg.conifg: the power meter client answers get_conifg(), the name both
\* generations call for its configuration
InitMonitor ==
    /\ \E v \in Variants, n \in 1..MaxSlots, g \in BOOLEAN :
          cfg = [Cfg0 EXCEPT !.routine = "monitor_power", !.variant = v,
                             !.slots = n, !.conifg = g]
    /\ dev = Dev0
    /\ pc = "mp_entry"
    /\ loc = Loc0 /\ out = Out0 /\ hist = Hist0

\* experiments.py:34-38 / monitor_power.py:7-11
\*   pm.get_conifg()['averaging']: AttributeError on a client without it
\*   np.zeros(int(duration/cycle_time)+1) for time and power_out
MP_Entry ==
    /\ pc = "mp_entry"
    /\ IF ~cfg.conifg
       THEN /\ pc' = "raised"
            /\ out' = Raise(out, "AttributeError")
            /\ loc' = loc
       ELSE /\ pc' = "mp_loop"
            /\ out' = out
            /\ loc' = [loc EXCEPT !.time = Zeros(cfg.slots, "zero"),
                                  !.power_out = Zeros(cfg.slots, "zero")]
    /\ UNCHANGED <<cfg, dev, hist>>

\* the poll of one slot: [timed_out, timer, busy]
\*   experiments.py:52      waitfor(pm, time_limit_s = cycle_time*10)
\*   monitor_power.py:23-31 timer = 0; while pm.busy(): ...
MonitorPoll(v, b) ==
    IF v = "package"
    THEN LET r == waitfor("package", b, MonitorLimit)
         IN  [timed_out |-> r.timed_out, timer |-> r.timer, busy |-> r.busy]
    ELSE LET r == InlinePoll(b, 0, MonitorLimit, PollInterval)
         IN  [timed_out |-> r.timed_out, timer |-> r.timer, busy |-> r.busy]

\* what a slot holds after its poll
\*   experiments.py:53-58    the fetch is in the else branch
\*   monitor_power.py:32-33  the fetch follows the loop unconditionally
MonitorStore(v, timed_out, old) ==
    IF ~timed_out THEN "ok"
    ELSE IF v = "package" THEN old ELSE "stale"

\* the slice bound after the loop body of slot i saw the flag set
\*   experiments.py:41-43 / monitor_power.py:13-15   points_measured = i
PointsMeasured(i) == i

\* one pass of `for i in range(len(power_out))`
MP_Slot ==
    /\ pc = "mp_loop"
    /\ cfg.routine = "monitor_power"
    /\ loc.i < cfg.slots
    /\ IF loc.completed
       THEN /\ loc' = [loc EXCEPT !.points_measured = PointsMeasured(loc.i)]
            /\ pc' = "mp_save"
            /\ UNCHANGED <<dev, hist>>
       ELSE \E d \in PmTimes(MonitorLimit, PollInterval) :
            LET r == MonitorPoll(cfg.variant, d)
                slot == loc.i + 1
                val == MonitorStore(cfg.variant, r.timed_out, loc.power_out[slot])
            IN  /\ dev' = [SleepAll(dev, r.timer) EXCEPT !.pm = r.busy]
                /\ loc' = [loc EXCEPT !.time[slot] = "set",
                                      !.power_out[slot] = val,
                                      !.completed = r.timed_out,
                                      !.i = @ + 1]
                /\ hist' = [hist EXCEPT
                       !.pmTrig = @ + 1,
                       !.trigAfterTO = @ \/ hist.timeouts > 0,
                       !.pmOk = IF r.timed_out THEN @ ELSE @ + 1,
                       !.pmStale = IF val = "stale" THEN @ + 1 ELSE @,
                       !.timeouts = IF r.timed_out THEN @ + 1 ELSE @,
                       !.firstTO = IF r.timed_out /\ @ = Unset THEN loc.i ELSE @,
                       !.toAt = IF r.timed_out THEN @ \cup {loc.i} ELSE @,
                       !.retrigger = @ \/ loc.i \in hist.toAt]
                /\ pc' = "mp_loop"
    /\ UNCHANGED <<cfg, out>>

\* the loop ran out of slots
MP_Exhausted ==
    /\ pc = "mp_loop"
    /\ cfg.routine = "monitor_power"
    /\ loc.i = cfg.slots
    /\ pc' = "mp_save"
    /\ UNCHANGED <<cfg, dev, loc, out, hist>>

\* experiments.py:60-73 / monitor_power.py:35-48
\* points_measured is assigned only in the break branch of the loop:
\* reading it otherwise raises UnboundLocalError
MP_Save ==
    /\ pc = "mp_save"
    /\ IF loc.points_measured = Unset
       THEN /\ out' = Raise(out, "UnboundLocalError")
            /\ pc' = "raised"
            /\ loc' = loc
       ELSE /\ loc' = [loc EXCEPT !.time = SubSeq(@, 1, loc.points_measured),
                                  !.power_out = SubSeq(@, 1, loc.points_measured)]
            /\ out' = Return(Save(out, [kind |-> "power-reading",
                                        t |-> loc'.time,
                                        power |-> loc'.power_out]), "None")
            /\ pc' = "returned"
    /\ UNCHANGED <<cfg, dev, hist>>

----------------------------------------------------------------------------
(* Swept scalar acquisition: tuning_curve *)

Wavelengths == {390, 410, 420, 450, 500, 680, 700, 720}
Steps == {10, 20}

\* the (start, stop) pairs of the scan plans tried: start # stop
Endpoints == {e \in Wavelengths \X Wavelengths :
                 /\ e[1] # e[2]
                 /\ e[1] - e[2] <= MaxSpan
                 /\ e[2] - e[1] <= MaxSpan}

OpoTimes == {0, PollInterval + 1, Hung}

ZeroPoint == [sp |-> Unset, n |-> 0, size |-> 0]

\* np.average(p), np.std(p) of setpoint i: the reduction reads all size
\* entries of p, of which n hold a fetched reading
Fetched(p) == Cardinality({x \in DOMAIN p : p[x] # "zero"})
Reduce(i, p) == [sp |-> i, n |-> Fetched(p), size |-> Len(p)]

DarkLimit(v) == IF v = "package" THEN TuningLimit
                ELSE ScriptDarkLimitPerSample * Samples

InitTuning ==
    /\ \E v \in Variants, en \in {"call", "plan"}, e \in Endpoints, st \in Steps :
          /\ en = "plan" => v = "package"
          /\ cfg = [Cfg0 EXCEPT !.routine = "tuning_curve", !.variant = v,
                                !.entry = en, !.start = e[1], !.stop = e[2],
                                !.step = st]
    /\ out = Out0
    /\ IF cfg.entry = "call"
       THEN /\ \E b \in {0, Hung} : dev = [Dev0 EXCEPT !.pm = b]
            /\ pc = "tc_entry"
            /\ loc = Loc0
            /\ hist = Hist0
       ELSE /\ dev = Dev0
            /\ hist = [Hist0 EXCEPT !.stage = "built"]
            /\ pc = "tc_check"
            /\ loc = [Loc0 EXCEPT
                  !.wls = Arange(Min(cfg.start, cfg.stop),
                                 Max(cfg.start, cfg.stop), cfg.step),
                  !.pm_timeout_bound = (cfg.variant = "package")]

\* experiments.py:244-252   the power meter is busy at the call: return
\* (tuning_curve.py has no such test)
TC_Entry ==
    /\ pc = "tc_entry"
    /\ IF cfg.variant = "package" /\ Busy(dev.pm)
       THEN /\ pc' = "returned"
            /\ out' = Return(out, "None")
            /\ loc' = loc
       ELSE /\ pc' = "tc_plan"
            /\ loc' = [loc EXCEPT !.pm_timeout_bound = (cfg.variant = "package")]
            /\ out' = out
    /\ UNCHANGED <<cfg, dev, hist>>

\* experiments.py:255 / tuning_curve.py:8-9 / experiments.py:127 / PLE.py:57
BuildPlan ==
    /\ pc \in {"tc_plan", "ple_plan"}
    /\ LET a == Plan(cfg.variant, cfg.routine, cfg.start, cfg.stop, cfg.step)
       IN  IF a.ok
           THEN /\ loc' = [loc EXCEPT !.wls = a.wls]
                /\ pc' = IF cfg.routine = "PLE" THEN "ple_check" ELSE "tc_check"
                /\ out' = out
                /\ hist' = [hist EXCEPT !.stage = "built"]
           ELSE /\ out' = Raise(out, "TypeError")
                /\ pc' = "raised"
                /\ loc' = loc
                /\ hist' = [hist EXCEPT !.stage = "no-plan"]
    /\ UNCHANGED <<cfg, dev>>

\* what a refused plan does to the call
\*   experiments.py:257   raise ValueError(...)
\*   tuning_curve.py:11   return ValueError(...)
\* experiments.py:256-262 / tuning_curve.py:10-20
TC_Check ==
    /\ pc = "tc_check"
    /\ IF RangeRefused(cfg.variant, loc.wls)
       THEN /\ IF cfg.variant = "package"
               THEN pc' = "raised" /\ out' = Raise(out, "ValueError")
               ELSE pc' = "returned" /\ out' = Return(out, "ValueError")
            /\ loc' = loc
            /\ hist' = [hist EXCEPT !.stage = "refused"]
       ELSE /\ pc' = "tc_dark"
            /\ loc' = [loc EXCEPT !.p = Zeros(Samples, "zero"), !.i = 0,
                                  !.timer = 0]
            /\ out' = out
            /\ hist' = [hist EXCEPT !.stage = "accepted"]
    /\ UNCHANGED <<cfg, dev>>

\* the poll of one dark sample
\*   experiments.py:265     waitfor(pm, time_limit_s=cycle_time*2)
\*   tuning_curve.py:23-28  the timer runs on from sample to sample
DarkPoll(v, b, timer) ==
    IF v = "package"
    THEN LET r == waitfor("package", b, TuningLimit)
         IN  [timed_out |-> r.timed_out, timer |-> r.timer, busy |-> r.busy,
              slept |-> r.timer]
    ELSE InlinePoll(b, timer, DarkLimit("script"), ScriptPmPoll)

\* where a dark sample leaves the control flow
\*   experiments.py:266-268 / tuning_curve.py:26-28   timeout: return
DarkNextIgnoreTimeout(timed_out) == "tc_dark"
DarkNext(timed_out) == IF timed_out THEN "returned" ELSE "tc_dark"

\* experiments.py:263-270 / tuning_curve.py:21-30   one dark sample
TC_DarkSample ==
    /\ pc = "tc_dark"
    /\ loc.i < Samples
    /\ \E d \in PmTimes(DarkLimit(cfg.variant),
                        IF cfg.variant = "package" THEN PollInterval ELSE ScriptPmPoll) :
       LET r == DarkPoll(cfg.variant, d, loc.timer)
       IN  /\ dev' = [SleepAll(dev, r.slept) EXCEPT !.pm = r.busy]
           /\ pc' = DarkNext(r.timed_out)
           /\ loc' = [loc EXCEPT
                 !.pm_timeout = IF cfg.variant = "package" THEN r.timed_out ELSE @,
                 !.timer = IF cfg.variant = "script" THEN r.timer ELSE @,
                 !.p[loc.i + 1] = IF r.timed_out THEN @ ELSE "ok",
                 !.i = IF r.timed_out THEN @ ELSE @ + 1]
           /\ out' = IF DarkNext(r.timed_out) = "returned" THEN Return(out, "None") ELSE out
           /\ hist' = [hist EXCEPT
                 !.pmTrig = @ + 1,
                 !.pmOk = IF r.timed_out THEN @ ELSE @ + 1,
                 !.darkTO = @ \/ r.timed_out,
                 !.sample = [timed_out |-> r.timed_out, slept |-> r.slept,
                             limit |-> DarkLimit(cfg.variant)]]
    /\ UNCHANGED cfg

\* experiments.py:271-276 / tuning_curve.py:31-41
TC_DarkDone ==
    /\ pc = "tc_dark"
    /\ loc.i = Samples
    /\ pc' = "tc_sweep"
    /\ loc' = [loc EXCEPT !.k = "dark", !.i = 0,
                          !.power_out = Zeros(Len(loc.wls), ZeroPoint),
                          !.std_out = Zeros(Len(loc.wls), ZeroPoint)]
    /\ UNCHANGED <<cfg, dev, out, hist>>

\* waiting for the OPO after set_position: [blocked, slept]
\*   experiments.py:284     waitfor(opo)
\*   tuning_curve.py:44-46  while opo.busy(): sleep(0.1); then sleep(1)
OpoWait(v, b) ==
    IF v = "package"
    THEN LET r == waitfor("package", b, -1)
         IN  [blocked |-> r.blocked, slept |-> r.timer]
    ELSE IF b = Hung THEN [blocked |-> TRUE, slept |-> 0]
    ELSE [blocked |-> FALSE,
          slept |-> ((b + ScriptOpoPoll - 1) \div ScriptOpoPoll) * ScriptOpoPoll
                    + ScriptSettle]

\* the head of the sweep loop sees the timeout flag
\*   experiments.py:278-281   if pm_timeout: points_measured = i; break
\*   (tuning_curve.py keeps no flag)
SweepStops(v, flag) == v = "package" /\ flag

\* experiments.py:277-286 / tuning_curve.py:42-48   head of one setpoint
TC_Setpoint ==
    /\ pc = "tc_sweep"
    /\ loc.i < Len(loc.wls)
    /\ IF SweepStops(cfg.variant, loc.pm_timeout)
       THEN /\ loc' = [loc EXCEPT !.points_measured = PointsMeasured(loc.i)]
            /\ pc' = "tc_save"
            /\ UNCHANGED <<dev, hist>>
       ELSE \E b \in OpoTimes :
            LET w == OpoWait(cfg.variant, b)
            IN  /\ hist' = [hist EXCEPT !.moves = Append(@, loc.wls[loc.i + 1])]
                /\ IF w.blocked
                   THEN /\ pc' = "blocked"
                        /\ dev' = [dev EXCEPT !.opo = b]
                        /\ loc' = loc
                   ELSE /\ pc' = "tc_sample"
                        /\ dev' = [SleepAll(dev, w.slept) EXCEPT !.opo = 0]
                        /\ loc' = [loc EXCEPT
                              !.p = Zeros(IF cfg.variant = "package" THEN Samples
                                          ELSE SweepSamples, "zero"),
                              !.j = 0, !.time_busy = 0]
    /\ UNCHANGED <<cfg, out>>

\* the main sweep has timed out for the first time at setpoint i
NoteTimeout(h, i) ==
    [h EXCEPT !.timeouts = @ + 1,
              !.firstTO = IF @ = Unset THEN i ELSE @,
              !.toAt = @ \cup {i}]

\* experiments.py:287-294   one sample of a setpoint
TC_Sample ==
    /\ pc = "tc_sample"
    /\ cfg.variant = "package"
    /\ loc.j < Samples
    /\ \E d \in PmTimes(TuningLimit, PollInterval) :
       LET r == waitfor("package", d, TuningLimit)
       IN  /\ dev' = [SleepAll(dev, r.timer) EXCEPT !.pm = r.busy]
           /\ loc' = [loc EXCEPT !.pm_timeout = r.timed_out,
                                 !.p[loc.j + 1] = IF r.timed_out THEN @ ELSE "ok",
                                 !.j = IF r.timed_out THEN @ ELSE @ + 1]
           /\ pc' = IF r.timed_out \/ loc.j + 1 = Samples THEN "tc_reduce"
                    ELSE "tc_sample"
           /\ hist' = [(IF r.timed_out THEN NoteTimeout(hist, loc.i) ELSE hist)
                         EXCEPT !.pmTrig = @ + 1,
                                !.trigAfterTO = @ \/ hist.timeouts > 0,
                                !.retrigger = @ \/ loc.i \in hist.toAt,
                                !.pmOk = IF r.timed_out THEN @ ELSE @ + 1,
                                !.sample = [timed_out |-> r.timed_out,
                                            slept |-> r.timer,
                                            limit |-> TuningLimit]]
    /\ UNCHANGED <<cfg, out>>

\* the dataset of the first i setpoints
\*   tuning_curve.py:56-62   opo_wavelengths[:i], power_out[:i], std_out[:i]
CurveUpTo(l, i) ==
    [kind |-> "tuning-curve", wl |-> SubSeq(l.wls, 1, i),
     power |-> SubSeq(l.power_out, 1, i), std |-> SubSeq(l.std_out, 1, i),
     dark |-> l.k]

\* tuning_curve.py:49-54   one sample of a setpoint, up to the first time
\* the poll loop sees time_busy > 60: that pass saves the curve measured so
\* far and stays in the poll loop
TC_ScriptSample ==
    /\ pc = "tc_sample"
    /\ cfg.variant = "script"
    /\ loc.j < SweepSamples
    /\ \E d \in PmTimes(ScriptSweepLimit, ScriptPmPoll) :
       LET r == InlinePoll(d, loc.time_busy, ScriptSweepLimit, ScriptPmPoll)
       IN  /\ r.timed_out => Len(out.saved) < MaxSaves
           /\ dev' = [SleepAll(dev, r.slept) EXCEPT !.pm = r.busy]
           /\ hist' = [(IF r.timed_out THEN NoteTimeout(hist, loc.i) ELSE hist)
                         EXCEPT !.pmTrig = @ + 1,
                                !.trigAfterTO = @ \/ hist.timeouts > 0,
                                !.retrigger = @ \/ loc.i \in hist.toAt,
                                !.pmOk = IF r.timed_out THEN @ ELSE @ + 1,
                                !.sample = [timed_out |-> r.timed_out,
                                            slept |-> r.slept,
                                            limit |-> ScriptSweepLimit]]
           /\ IF r.timed_out
              THEN /\ loc' = [loc EXCEPT !.time_busy = r.timer]
                   /\ out' = Save(out, CurveUpTo(loc, loc.i))
                   /\ pc' = "tc_overrun"
              ELSE /\ loc' = [loc EXCEPT !.time_busy = r.timer,
                                         !.p[loc.j + 1] = "ok",
                                         !.j = @ + 1]
                   /\ out' = out
                   /\ pc' = IF loc.j + 1 = SweepSamples THEN "tc_reduce"
                            ELSE "tc_sample"
    /\ UNCHANGED cfg

\* tuning_curve.py:51-64   the poll loop after time_busy has passed 60:
\* every further pass saves again; when the meter is ready the reading is
\* fetched and the sample loop goes on
TC_ScriptOverrun ==
    /\ pc = "tc_overrun"
    /\ IF Busy(dev.pm)
       THEN /\ Len(out.saved) < MaxSaves
            /\ dev' = SleepAll(dev, ScriptPmPoll)
            /\ loc' = [loc EXCEPT !.time_busy = @ + ScriptPmPoll]
            /\ out' = Save(out, CurveUpTo(loc, loc.i))
            /\ pc' = "tc_overrun"
            /\ hist' = hist
       ELSE /\ loc' = [loc EXCEPT !.p[loc.j + 1] = "late", !.j = @ + 1]
            /\ pc' = IF loc.j + 1 = SweepSamples THEN "tc_reduce" ELSE "tc_sample"
            /\ hist' = [hist EXCEPT !.pmStale = @ + 1]
            /\ UNCHANGED <<dev, out>>
    /\ UNCHANGED cfg

\* experiments.py:296-297 / tuning_curve.py:65-67
TC_Reduce ==
    /\ pc = "tc_reduce"
    /\ loc' = [loc EXCEPT !.power_out[loc.i + 1] = Reduce(loc.i, loc.p),
                          !.std_out[loc.i + 1] = Reduce(loc.i, loc.p),
                          !.i = @ + 1]
    /\ pc' = "tc_sweep"
    /\ UNCHANGED <<cfg, dev, out, hist>>

\* the sweep loop ran out of setpoints
TC_SweepEnd ==
    /\ pc = "tc_sweep"
    /\ loc.i = Len(loc.wls)
    /\ pc' = "tc_save"
    /\ UNCHANGED <<cfg, dev, loc, out, hist>>

\* the curves handed over at the end
\*   experiments.py:299-301   if pm_timeout: power_out[:points_measured], ...
\*   tuning_curve.py:69-78    the whole arrays
FinalCurve(v, l) ==
    IF v = "package" /\ l.pm_timeout
    THEN SubSeq(l.power_out, 1, l.points_measured)
    ELSE l.power_out

\* experiments.py:299-315 / tuning_curve.py:69-78
\* points_measured is assigned only in the break branch of the sweep loop
TC_Save ==
    /\ pc = "tc_save"
    /\ IF cfg.variant = "package" /\ loc.pm_timeout /\ loc.points_measured = Unset
       THEN /\ out' = Raise(out, "UnboundLocalError")
            /\ pc' = "raised"
            /\ loc' = loc
       ELSE /\ loc' = [loc EXCEPT !.power_out = FinalCurve(cfg.variant, loc),
                                  !.std_out = FinalCurve(cfg.variant, loc)]
            /\ out' = Return(Save(out, [kind |-> "tuning-curve", wl |-> loc.wls,
                                        power |-> loc'.power_out,
                                        std |-> loc'.std_out, dark |-> loc.k]),
                             "None")
            /\ pc' = "returned"
    /\ UNCHANGED <<cfg, dev, hist>>

----------------------------------------------------------------------------
(* Gated synchronized acquisition: PLE_spectrum (package), PLE (script) *)

\* columns of the buffers P and t
\*   experiments.py:119-121 / PLE.py:65-67   (exposure_time/cycle_time)*10
Cols(c) == (c.exposure * 10) \div CycleTime

\* how long a triggered camera stays busy
CamTimes(c) == {c.exposure, Hung}

InRange(w) == SeqMin(w) >= OpoMin /\ SeqMax(w) <= OpoMax

InitPLE ==
    /\ \E v \in Variants, en \in {"call", "plan", "acquire"}, e \in Endpoints,
          st \in Steps, h \in BOOLEAN,
          x \in {TinyExposure, ShortExposure, MaxExposure} :
          /\ en = "acquire" => v = "script"
          \* the longest exposure is followed on plans of one setpoint
          /\ x = MaxExposure => Len(Arange(Min(e[1], e[2]), Max(e[1], e[2]), st)) = 1
          /\ cfg = [Cfg0 EXCEPT !.routine = "PLE", !.variant = v, !.entry = en,
                                !.start = e[1], !.stop = e[2], !.step = st,
                                !.hasPm = h, !.exposure = x]
    /\ dev = Dev0 /\ out = Out0
    /\ hist = [Hist0 EXCEPT !.stage = CASE cfg.entry = "call" -> "start"
                                        [] cfg.entry = "plan" -> "built"
                                        [] cfg.entry = "acquire" -> "accepted"]
    /\ LET w == Arange(Min(cfg.start, cfg.stop), Max(cfg.start, cfg.stop), cfg.step)
           built == [Loc0 EXCEPT !.wls = w,
                                 !.P = Zeros(Len(w), 0), !.t = Zeros(Len(w), 0),
                                 !.sig = Zeros(Len(w), "zero")]
       IN  CASE cfg.entry = "call"    -> pc = "ple_entry" /\ loc = Loc0
             [] cfg.entry = "plan"    -> /\ pc = "ple_check" /\ loc = built
                                         /\ Len(w) <= MaxPleSetpoints
             [] cfg.entry = "acquire" -> /\ pc = "ple_dark" /\ loc = built
                                         /\ Len(w) <= MaxPleSetpoints
                                         /\ InRange(w)

\* experiments.py:102-124   pm_config is the configuration mapping: calling
\* it (line 117) raises TypeError
\* PLE.py:45-57             the first statement that can raise is line 57
PLE_Entry ==
    /\ pc = "ple_entry"
    /\ IF cfg.variant = "package" /\ cfg.hasPm
       THEN pc' = "raised" /\ out' = Raise(out, "TypeError")
       ELSE pc' = "ple_plan" /\ out' = out
    /\ UNCHANGED <<cfg, dev, loc, hist>>

\* experiments.py:128-129   the range check of the package
\* PLE.py:72-73             np.max(wl): the name wl is not bound, NameError
PLE_Check ==
    /\ pc = "ple_check"
    /\ IF cfg.variant = "script"
       THEN /\ pc' = "raised" /\ out' = Raise(out, "NameError")
            /\ hist' = [hist EXCEPT !.stage = "no-check"]
       ELSE IF RangeRefused("package", loc.wls)
       THEN /\ pc' = "raised" /\ out' = Raise(out, "ValueError")
            /\ hist' = [hist EXCEPT !.stage = "refused"]
       ELSE /\ pc' = "ple_dark" /\ out' = out
            /\ hist' = [hist EXCEPT !.stage = "accepted"]
    /\ UNCHANGED <<cfg, dev, loc>>

\* an unbounded wait in the spectrum scan: waitfor(d) / __waitfor(d)
Unbounded(v, b) == waitfor(v, b, -1)

\* experiments.py:133-144 / PLE.py:75-86   the dark frame
PLE_Dark ==
    /\ pc = "ple_dark"
    /\ \E e \in CamTimes(cfg), d \in PmTimes(CycleTime, PollInterval) :
       LET d1 == [dev EXCEPT !.cam = e]
           d2 == IF cfg.hasPm THEN [SleepAll(d1, StabilizeSleep) EXCEPT !.pm = d]
                 ELSE d1
           r  == waitfor(cfg.variant, d2.pm, CycleTime)
           d3 == IF cfg.hasPm THEN [SleepAll(d2, r.timer) EXCEPT !.pm = r.busy]
                 ELSE d2
           c  == Unbounded(cfg.variant, d3.cam)
           d4 == [SleepAll(d3, c.timer) EXCEPT !.cam = c.busy]
       IN  /\ dev' = d4
           /\ pc' = IF c.blocked THEN "blocked" ELSE "ple_sweep"
           /\ loc' = [loc EXCEPT
                 !.pm_timeout = IF cfg.hasPm THEN r.timed_out ELSE @,
                 !.pm_timeout_bound = cfg.hasPm,
                 !.P_dark = IF ~cfg.hasPm THEN @
                            ELSE IF r.timed_out THEN "stale" ELSE "ok",
                 \* waitfor(camera) does not return from a camera that
                 \* never gets ready
                 !.frame_dark = IF c.blocked THEN @
                                ELSE IF Busy(c.busy) THEN "early" ELSE "frame",
                 !.wl_idx = 0]
           /\ hist' = [hist EXCEPT
                 !.darkTO = cfg.hasPm /\ r.timed_out,
                 !.camTrig = Zeros(Len(loc.wls), 0),
                 !.camFetch = Zeros(Len(loc.wls), 0),
                 !.pmTrigAt = Zeros(Len(loc.wls), 0)]
    /\ UNCHANGED <<cfg, out>>

\* whether the setpoint samples the power meter
\*   experiments.py:156 / PLE.py:98   if pm is not None and not pm_timeout
SamplesDespiteFlag(hasPm, flag) == hasPm
Samples_p(hasPm, flag) == hasPm /\ ~flag

\* experiments.py:148-157 / PLE.py:92-99   position the OPO, start the exposure
PLE_Setpoint ==
    /\ pc = "ple_sweep"
    /\ loc.wl_idx < Len(loc.wls)
    /\ \E b \in OpoTimes, e \in CamTimes(cfg) :
       LET w  == Unbounded(cfg.variant, b)
           sp == loc.wl_idx + 1
       IN  /\ hist' = [hist EXCEPT !.moves = Append(@, loc.wls[sp]),
                                   !.camTrig[sp] = IF w.blocked THEN @ ELSE @ + 1]
           /\ IF w.blocked
              THEN /\ pc' = "blocked"
                   /\ dev' = [dev EXCEPT !.opo = b]
                   /\ loc' = loc
              ELSE /\ dev' = [SleepAll(dev, w.timer) EXCEPT !.opo = w.busy, !.cam = e]
                   /\ loc' = [loc EXCEPT !.i = 0]
                   /\ pc' = IF Samples_p(cfg.hasPm, loc.pm_timeout)
                            THEN "ple_gate" ELSE "ple_wait"
    /\ UNCHANGED <<cfg, out>>

\* a reading is stored after the poll of the power meter
\*   experiments.py:162 / PLE.py:104   if not pm_timeout and i < t.size
\* t.size is the number of cells of the whole buffer
StoresNothing(timed_out, i, l, c) == FALSE
Stores(timed_out, i, l, c) == ~timed_out /\ i < Len(l.wls) * Cols(c)

\* experiments.py:158-169 / PLE.py:100-111   one pass of `while camera.busy()`
PLE_Gate ==
    /\ pc = "ple_gate"
    /\ LET sp == loc.wl_idx + 1
       IN  IF ~Busy(dev.cam)
           THEN \* the loop ends: if i>t_max: t_max=i
                /\ loc' = [loc EXCEPT !.t_max = Max(@, loc.i)]
                /\ pc' = "ple_frame"
                /\ UNCHANGED <<dev, out, hist>>
           ELSE IF loc.i >= Cols(cfg)
           THEN \* t[wl_idx,i] is outside the buffer
                /\ out' = Raise(out, "IndexError")
                /\ pc' = "raised"
                /\ UNCHANGED <<dev, loc, hist>>
           ELSE \E d \in PmTimes(CycleTime, PollInterval) :
                LET r == waitfor(cfg.variant, d, CycleTime)
                    st == Stores(r.timed_out, loc.i, loc, cfg)
                IN  /\ hist.pmTrigAt[sp] < MaxGate
                    /\ dev' = [SleepAll(dev, r.timer) EXCEPT !.pm = r.busy]
                    /\ loc' = [loc EXCEPT !.t[sp] = Max(@, loc.i + 1),
                                          !.pm_timeout = r.timed_out,
                                          !.P[sp] = IF st THEN loc.i + 1 ELSE @,
                                          !.i = IF st THEN @ + 1 ELSE @]
                    /\ hist' = [(IF r.timed_out THEN NoteTimeout(hist, loc.wl_idx)
                                 ELSE hist)
                                  EXCEPT !.pmTrigAt[sp] = @ + 1,
                                         !.trigAfterTO = @ \/ hist.timeouts > 0,
                                         !.retrigger = @ \/ loc.wl_idx \in hist.toAt,
                                         !.gate = [slept |-> r.timer,
                                                   hung |-> d = Hung]]
                    \* a wait that cannot end keeps the camera unpolled
                    /\ pc' = IF r.blocked THEN "blocked" ELSE "ple_gate"
                    /\ out' = out
    /\ UNCHANGED cfg

\* experiments.py:170-171 / PLE.py:112-113   no sampling: wait for the camera
PLE_Wait ==
    /\ pc = "ple_wait"
    /\ LET c == Unbounded(cfg.variant, dev.cam)
       IN  /\ dev' = [SleepAll(dev, c.timer) EXCEPT !.cam = c.busy]
           /\ pc' = IF c.blocked THEN "blocked" ELSE "ple_frame"
    /\ UNCHANGED <<cfg, loc, out, hist>>

\* experiments.py:173-175 / PLE.py:114-115   fetch and store the image
PLE_Frame ==
    /\ pc = "ple_frame"
    /\ LET sp == loc.wl_idx + 1
       IN  /\ loc' = [loc EXCEPT !.sig[sp] = IF Busy(dev.cam) THEN "early" ELSE "frame",
                                 !.wl_idx = @ + 1]
           /\ hist' = [hist EXCEPT !.camFetch[sp] = @ + 1]
    /\ pc' = "ple_sweep"
    /\ UNCHANGED <<cfg, dev, out>>

\* the sweep loop ran out of setpoints; experiments.py:177-199 / PLE.py:117-134
\* build and save the image dataset
PLE_SaveImages ==
    /\ pc = "ple_sweep"
    /\ loc.wl_idx = Len(loc.wls)
    /\ out' = Save(out, [kind |-> "PLE-images", wl |-> loc.wls, sig |-> loc.sig,
                         dark |-> loc.frame_dark])
    /\ pc' = IF cfg.hasPm THEN "ple_power" ELSE "returned"
    /\ UNCHANGED <<cfg, dev, loc, hist>>

\* the shape of the trimmed time stamps
\*   experiments.py:203 / PLE.py:138   t[:,t_max]: one column of the buffer
TrimT(n, tmax) == <<n>>

\* the shape of the trimmed readings
\*   experiments.py:203 / PLE.py:138   P[:,:t_max]
TrimP(n, tmax) == <<n, tmax>>

\* experiments.py:201-218 / PLE.py:136-153   the power dataset: the column
\* t_max must exist in t; power_data.atrs (line 214 / 149) is no attribute
\* of the dataset, the statement raises before power_data.save
PLE_SavePower ==
    /\ pc = "ple_power"
    /\ IF loc.t_max >= Cols(cfg)
       THEN /\ out' = Raise(out, "IndexError")
            /\ loc' = loc
       ELSE /\ loc' = [loc EXCEPT !.t_shape = TrimT(Len(loc.wls), loc.t_max),
                                  !.P_shape = TrimP(Len(loc.wls), loc.t_max)]
            /\ out' = Raise(out, "AttributeError")
    /\ pc' = "raised"
    /\ UNCHANGED <<cfg, dev, hist>>

----------------------------------------------------------------------------
Init == InitWaitfor \/ InitMonitor \/ InitTuning \/ InitPLE

Next ==
    \/ WaitforCall
    \/ MP_Entry \/ MP_Slot \/ MP_Exhausted \/ MP_Save
    \/ TC_Entry \/ BuildPlan \/ TC_Check \/ TC_DarkSample \/ TC_DarkDone
    \/ TC_Setpoint \/ TC_Sample \/ TC_ScriptSample \/ TC_ScriptOverrun
    \/ TC_Reduce \/ TC_SweepEnd \/ TC_Save
    \/ PLE_Entry \/ PLE_Check \/ PLE_Dark \/ PLE_Setpoint \/ PLE_Gate
    \/ PLE_Wait \/ PLE_Frame \/ PLE_SaveImages \/ PLE_SavePower

Spec == Init /\ [][Next]_vars

\* a routine is one sequential thread of control: it always goes on to its
\* next statement until it returns, raises or waits forever
LiveSpec == Spec /\ WF_vars(Next)

----------------------------------------------------------------------------
(* Properties *)

Sweeps == {"tuning_curve", "PLE"}

Ascending(w) == \A x \in 1..(Len(w) - 1) : w[x] < w[x + 1]

\* the range check has acted on the setpoint array
Checked == hist.stage \in {"accepted", "refused", "no-check"}

\* C1: tuning_curve, dark phase passed, first sample timeout of the main
\* sweep at setpoint j: every curve handed to persistence has exactly j
\* points, the points of setpoints 0..j-1, and a curve is handed over.
C1_CurveHasCompletedSetpoints ==
    (cfg.routine = "tuning_curve" /\ cfg.entry = "call" /\ hist.firstTO # Unset) =>
        /\ \A s \in DOMAIN out.saved :
              /\ Len(out.saved[s].power) = hist.firstTO
              /\ \A x \in DOMAIN out.saved[s].power :
                    out.saved[s].power[x].sp = x - 1
        /\ pc \in {"returned", "raised"} => out.saved # << >>

\* C2: monitor_power, k samples succeed and the next trigger times out:
\* the series handed to persistence has length k and every slot of it holds
\* a reading fetched after a successful poll.
C2_SeriesHasSuccessfulSamples ==
    (cfg.routine = "monitor_power" /\ hist.firstTO # Unset) =>
        \A s \in DOMAIN out.saved :
            /\ Len(out.saved[s].power) = hist.firstTO
            /\ \A x \in DOMAIN out.saved[s].power : out.saved[s].power[x] = "ok"

BusyForeverReturned ==
    /\ cfg.routine = "waitfor" /\ pc = "returned"
    /\ cfg.limit > 0 /\ dev.pm = Hung

\* C4 (as stated): waitfor with deadline D > 0 on a device that is always
\* busy returns True after at least D and strictly less than D + one
\* polling interval of slept time.
C4_TimeoutWithinOneInterval ==
    BusyForeverReturned =>
        /\ out.returned = "True"
        /\ hist.wait.timer >= cfg.limit
        /\ hist.wait.timer < cfg.limit + PollInterval

\* C4 (amended): waitfor with deadline D > 0 on a device that is always busy
\* returns True after strictly more than D and at most D + one polling
\* interval of slept time.
C4_TimeoutAfterDeadline ==
    BusyForeverReturned =>
        /\ out.returned = "True"
        /\ hist.wait.timer > cfg.limit
        /\ hist.wait.timer <= cfg.limit + PollInterval
        /\ hist.wait.timer = hist.wait.sleeps * PollInterval

C4_Witness ==
    /\ BusyForeverReturned
    /\ out.returned = "True"
    /\ hist.wait.timer = cfg.limit + PollInterval

\* C5: a call without deadline returns only when the last busy() poll was
\* false, the device being ready.
C5_UnboundedReturnsReady ==
    (cfg.routine = "waitfor" /\ pc = "returned" /\ cfg.limit <= 0) =>
        ~hist.wait.lastBusy /\ ~Busy(dev.pm)

\* C6: with start > stop and step > 0 every acquisition routine generates
\* the setpoint sequence it generates for the swapped call, and the sequence
\* is strictly ascending.
C6_ReversedPlanSameSetpoints ==
    (/\ cfg.routine \in Sweeps /\ cfg.entry = "call"
     /\ cfg.start > cfg.stop /\ hist.stage # "start") =>
        LET q == Plan(cfg.variant, cfg.routine, cfg.stop, cfg.start, cfg.step)
        IN  /\ hist.stage # "no-plan"
            /\ q.ok
            /\ loc.wls = q.wls
            /\ Ascending(loc.wls)

\* C7: a plan whose setpoints lie in [420, 700] passes the range check; the
\* sequence holds both sorted endpoints when their distance is a multiple
\* of the step; start=500, stop=450, step=10 gives 450, 460, ..., 500.
C7_InRangePlanAccepted ==
    (cfg.routine \in Sweeps /\ cfg.entry = "call") =>
        /\ (Checked /\ InRange(loc.wls)) => hist.stage = "accepted"
        /\ (hist.stage \in {"built", "accepted", "refused", "no-check"}
              /\ (Max(cfg.start, cfg.stop) - Min(cfg.start, cfg.stop)) % cfg.step = 0) =>
                 /\ loc.wls[1] = Min(cfg.start, cfg.stop)
                 /\ loc.wls[Len(loc.wls)] = Max(cfg.start, cfg.stop)
        /\ (hist.stage \in {"built", "accepted", "refused", "no-check"}
              /\ cfg.start = 500 /\ cfg.stop = 450 /\ cfg.step = 10) =>
                 loc.wls = <<450, 460, 470, 480, 490, 500>>

\* C8: a plan with a setpoint outside [420, 700] ends the call with a
\* configuration error; the OPO is never moved, no device is triggered and
\* nothing is saved.
C8_OutOfRangeFailsFast ==
    (cfg.routine \in Sweeps /\ cfg.entry = "call" /\ Checked /\ ~InRange(loc.wls)) =>
        /\ hist.stage = "refused"
        /\ "ValueError" \in {out.raised, out.returned}
        /\ hist.moves = << >>
        /\ hist.pmTrig = 0
        /\ \A sp \in DOMAIN hist.camTrig : hist.camTrig[sp] = 0
        /\ out.saved = << >>

\* C9: tuning_curve, a dark-reference sample timed out: the call has
\* returned, the OPO was never moved, the main sweep never started and
\* nothing was saved.
C9_DarkTimeoutAborts ==
    (cfg.routine = "tuning_curve" /\ hist.darkTO) =>
        /\ pc = "returned"
        /\ hist.moves = << >>
        /\ loc.power_out = << >>
        /\ hist.timeouts = 0
        /\ out.saved = << >>

C9_Witness ==
    /\ cfg.routine = "tuning_curve" /\ hist.darkTO
    /\ pc = "returned" /\ dev.pm = Hung

SavedKinds == [s \in DOMAIN out.saved |-> out.saved[s].kind]

\* C11: in a run that reaches persistence no dataset is handed over twice,
\* whatever timeouts occurred, and a spectrum scan with a power meter that
\* has ended has handed over the power dataset next to the image dataset.
C11_SavedOncePerDataset ==
    (cfg.entry = "call" /\ out.saved # << >>) =>
        /\ \A a, b \in DOMAIN out.saved :
              a # b => SavedKinds[a] # SavedKinds[b]
        /\ (cfg.routine = "PLE" /\ cfg.hasPm /\ pc \in {"returned", "raised"}) =>
              \E a \in DOMAIN out.saved : SavedKinds[a] = "PLE-power"

\* the exposure of the current setpoint was just triggered: nothing of the
\* setpoint has been sampled or polled yet
ExposureJustTriggered ==
    /\ cfg.routine = "PLE"
    /\ \/ pc = "ple_wait"
       \/ pc = "ple_gate" /\ hist.pmTrigAt[loc.wl_idx + 1] = 0

Ms(x) == x * PollInterval

\* a spectrum scan with a power meter, an exposure of 50 ms and a cycle time
\* of 5 ms, in which no poll of the power meter has timed out
ScenarioD ==
    /\ cfg.routine = "PLE" /\ cfg.hasPm
    /\ cfg.exposure = Ms(50) /\ CycleTime = Ms(5)
    /\ ~hist.darkTO /\ hist.timeouts = 0

C14_NoRetriggerAtTimedOutSetpoint ==
    cfg.entry = "call" => ~hist.retrigger

WaitforOver == cfg.routine = "waitfor" /\ pc \in {"returned", "blocked"}

\* C16: a call of waitfor / __waitfor, ready or timed out, leaves the device
\* where the device itself got in the time slept (still busy for what is
\* left of its busy time, busy forever if it never gets ready); nothing was
\* triggered, fetched, moved or saved, and the time slept is the number of
\* sleeps times the polling interval.
C16_WaitforOnlyPolls ==
    WaitforOver =>
        /\ dev.pm = IF cfg.busy = Hung THEN Hung
                    ELSE Max(0, cfg.busy - hist.wait.timer)
        /\ dev.opo = 0 /\ dev.cam = 0
        /\ hist.wait.timer = hist.wait.sleeps * PollInterval
        /\ hist.pmTrig = 0 /\ hist.pmOk = 0 /\ hist.pmStale = 0
        /\ hist.moves = << >>
        /\ out.saved = << >>

\* a call that timed out on a device that was still busy afterwards
C16_Witness ==
    /\ WaitforOver
    /\ out.returned = "True"
    /\ cfg.busy \in 1..MaxBusy
    /\ dev.pm > 0

\* the poll of the power meter of the dark capture of a spectrum scan has
\* timed out
DarkCaptureTimedOut == cfg.routine = "PLE" /\ cfg.hasPm /\ hist.darkTO

FlagWasSet ==
    /\ cfg.routine \in Sweeps
    /\ loc.pm_timeout_bound
    /\ hist.timeouts > 0 \/ hist.darkTO

MonitorOver ==
    /\ cfg.routine = "monitor_power" /\ cfg.conifg
    /\ pc \in {"returned", "raised"}

\* C19: every run of monitor_power ends by handing one series to
\* persistence, whose length is the number of readings fetched after a
\* successful poll (all slots when nothing timed out).
C19_SeriesLengthIsFetchCount ==
    MonitorOver =>
        /\ pc = "returned"
        /\ Len(out.saved) = 1
        /\ Len(out.saved[1].power) = hist.pmOk
        /\ hist.timeouts = 0 => Len(out.saved[1].power) = cfg.slots

\* the slots of power_out that were written
Written == {x \in DOMAIN loc.power_out : loc.power_out[x] # "zero"}

\* C20: monitor_power does not trigger the power meter after a poll has
\* timed out, fetches nothing after a timed-out poll, and the values
\* written to power_out are exactly the readings fetched after a
\* successful poll.
C20_StopsAtFirstTimeout ==
    cfg.routine = "monitor_power" =>
        /\ ~hist.trigAfterTO
        /\ hist.timeouts <= 1
        /\ hist.pmStale = 0
        /\ \A x \in Written : loc.power_out[x] = "ok"
        /\ Cardinality(Written) = hist.pmOk

\* C21: tuning_curve: a sample of the power meter, in the dark phase or in
\* the main sweep, times out only when the time waited since the trigger of
\* that very sample has passed the deadline; the time waited for earlier
\* samples does not count.
C21_DeadlinePerSample ==
    (cfg.routine = "tuning_curve" /\ cfg.entry = "call" /\ hist.sample.timed_out) =>
        hist.sample.slept > hist.sample.limit

GateOnHungMeter == cfg.routine = "PLE" /\ hist.gate.hung

\* the sampling loop of a setpoint runs on an exposure that ends
SamplingEndingExposure ==
    /\ cfg.routine = "PLE" /\ pc = "ple_gate"
    /\ dev.cam # Hung

\* the sweep is back at its head with the image of the setpoint before
\* fetched
ImageFetched ==
    /\ cfg.routine = "PLE" /\ pc = "ple_sweep"
    /\ loc.wl_idx >= 1
    /\ hist.camFetch[loc.wl_idx] = 1

BoundedCallMade == cfg.routine = "waitfor" /\ cfg.limit > 0 /\ pc # "wf_call"

\* the wait after which a poll of the device of the call first returns not
\* busy: the first multiple of the polling interval that covers its busy time
FirstReadyPoll == ((cfg.busy + PollInterval - 1) \div PollInterval) * PollInterval

\* C24: a call with a positive deadline D returns, whatever the device
\* does, after at most floor(D / interval) + 1 sleeps; it returns False when
\* a poll found the device ready with a wait of at most D, True otherwise.
C24_BoundedPollTerminates ==
    BoundedCallMade =>
        /\ pc = "returned"
        /\ hist.wait.sleeps <= (cfg.limit \div PollInterval) + 1
        /\ out.returned = IF cfg.busy # Hung /\ FirstReadyPoll <= cfg.limit
                          THEN "False" ELSE "True"
        /\ out.returned = "False" =>
              ~hist.wait.lastBusy /\ hist.wait.timer = FirstReadyPoll

\* the device got ready in the very sleep that passed the deadline: the
\* call has slept floor(D / interval) + 1 times and returns True
C24_Witness ==
    /\ BoundedCallMade
    /\ out.returned = "True"
    /\ ~hist.wait.lastBusy
    /\ hist.wait.sleeps = (cfg.limit \div PollInterval) + 1

====
